---- MODULE Spec2Model ----
(***************************************************************************)
(* Model of akr411/doit: the bolt-backed todo store (internal/storage),    *)
(* the Todo record (internal/models) and the completion-streak tracker.    *)
(*                                                                         *)
(* Time is counted in whole hours since local midnight of day 0, which is  *)
(* 1 January of BaseYear; the deadline parser counts in minutes.  The       *)
(* specifications share the state:                                         *)
(*   Spec            the storage API (SaveTodo, UpdateTodo, DeleteTodo)     *)
(*                   over a coarse clock;                                   *)
(*   SpecStreak      the streak transition updateStreakOnCompletion over    *)
(*                   an hour-by-hour clock;                                 *)
(*   SpecTodo        MarkComplete and MarkIncomplete on a Todo in memory;   *)
(*   SpecViews       GetAllTodos and the two derived lists;                 *)
(*   SpecStreakStore UpdateStreak and GetStreak;                            *)
(*   SpecParse, SpecTokens, SpecStamps                                      *)
(*                   the deadline parser on short texts, on texts of        *)
(*                   tokens and on timestamps;                              *)
(*   SpecMain        one run of the command line (cmd/main.go);             *)
(*   SpecList        the list view (internal/ui/list.go) over a few todos:  *)
(*                   key presses, and the loads the runtime runs and        *)
(*                   delivers in any order;                                 *)
(*   SpecPages       navigation and reloads of the list view over more      *)
(*                   than a page of todos.                                  *)
(***************************************************************************)
EXTENDS Integers, FiniteSets, Sequences, TLC

---------------------------------------------------------------------------
(* Bounds *)

\* last hour the hour-by-hour clock of SpecStreak may reach
MaxHour == 72

\* last hour the clock of Spec may reach
MaxClock == 24

\* largest limit handed to GetTopUpcomingTodos
MaxLimit == 4

\* cap on TotalCompleted (number of streak transitions applied)
MaxCompletions == 3

\* longest short text handed to the deadline parser
MaxLen == 4

\* most tokens in a token text handed to the deadline parser
MaxTokens == 2

\* most commands and messages of the list view the runtime holds at once
MaxInFlight == 2

\* most calls of UpdateTodo and DeleteTodo the list view makes
MaxCalls == 2

---------------------------------------------------------------------------
(* Program constants and value encodings *)

\* divisor of Hours() in daysSinceLastCompletion; also the length of a
\* calendar day of the local clock
HoursPerDay == 24

\* time.Time{} : the zero instant, for which IsZero() is true
ZeroTime == -1

\* a nil *time.Time (Deadline, CompletedAt)
NilTime == -2

\* keys of the todo bucket
IDs == {"a", "b"}

\* deadlines a caller may attach to a todo
Deadlines == {NilTime, 24}

\* amounts by which the clock advances between storage calls in Spec
ClockSteps == {24}

\* keys of the todo bucket in the views, in the byte order in which
\* Bucket.ForEach visits them
KeyOrder == <<"a", "b", "c", "d", "e", "f", "g", "h", "i", "j", "k", "l">>

\* the keys under which the views find todos
ViewKeys == {"a", "b", "c"}

\* deadlines and creation instants of the todos stored in the views
ViewDeadlines == {NilTime, 24, 48, 72}
CreatedAts == {0, 12, 24}

\* the single key of the streak bucket
StreakKey == "current"

\* calendar-day labels the clock can produce
Days == 0 .. ((MaxHour + 1) \div HoursPerDay)

VARIABLES
    now,        \* time.Now(), in hours
    todos,      \* bucket "todos": a function from the stored ids to records
    streaks,    \* bucket "streaks": empty, or StreakKey |-> Streak
    last,       \* history: the call made by the last step (none after a
                \* clock step), with the streak state before it
    first,      \* history: instant of the first streak transition, or ZeroTime
    written,    \* history: what the successful writes and deletes left in
                \* each bucket, [todos |-> id -> Todo, streak |-> key -> Streak]
    item,       \* a Todo held in memory by a caller
    out,        \* the value returned by the last read of the store or the
                \* last call of the deadline parser
    deadline,   \* the text handed to the deadline parser (the -n flag), a
                \* sequence of one-character strings
    title,      \* the -t flag, a text
    description, \* the -d flag, a text
    program,    \* what the process is running: "none", "main", "list",
                \* "form", or how it ended: "quit", "exit 0", "exit 1"
    model,      \* the ListModel of the list view
    pending,    \* the commands Update returned whose message the runtime
                \* has not delivered: loadData to be run, or the message it
                \* made
    deleted,    \* history: the ids a confirmed delete removed from the bucket
    calls       \* history: how many times the list view called UpdateTodo
                \* or DeleteTodo

\* the state of the command line and of the list view
ui == <<title, description, program, model, pending, deleted, calls>>

vars == <<now, todos, streaks, last, first, written, item, out, deadline, ui>>

---------------------------------------------------------------------------
(* internal/models/todo.go *)

\* a zero-valued Todo carrying only its id
NewTodo(id) ==
    [ID |-> id, Deadline |-> NilTime, Completed |-> FALSE,
     CompletedAt |-> NilTime, CreatedAt |-> ZeroTime, UpdatedAt |-> ZeroTime]

MarkComplete(t, at) ==
    [t EXCEPT !.Completed = TRUE, !.CompletedAt = at, !.UpdatedAt = at]

MarkIncomplete_KeepsStamp(t, at) ==
    [t EXCEPT !.Completed = FALSE, !.UpdatedAt = at]

MarkIncomplete(t, at) ==
    [t EXCEPT !.Completed = FALSE, !.CompletedAt = NilTime, !.UpdatedAt = at]

\* json.Marshal of a Todo: the struct tags name the keys, and the two
\* omitempty pointers are left out when nil
Marshal_DropsCompletedAt(t) ==
    IF t.Deadline # NilTime
    THEN [id |-> t.ID, completed |-> t.Completed,
          created_at |-> t.CreatedAt, updated_at |-> t.UpdatedAt,
          deadline |-> t.Deadline]
    ELSE [id |-> t.ID, completed |-> t.Completed,
          created_at |-> t.CreatedAt, updated_at |-> t.UpdatedAt]

Marshal(t) ==
    LET base == [id |-> t.ID, completed |-> t.Completed,
                 created_at |-> t.CreatedAt, updated_at |-> t.UpdatedAt]
    IN  IF t.Deadline # NilTime /\ t.CompletedAt # NilTime
        THEN [id |-> t.ID, completed |-> t.Completed,
              created_at |-> t.CreatedAt, updated_at |-> t.UpdatedAt,
              deadline |-> t.Deadline, completed_at |-> t.CompletedAt]
        ELSE IF t.Deadline # NilTime
        THEN [id |-> t.ID, completed |-> t.Completed,
              created_at |-> t.CreatedAt, updated_at |-> t.UpdatedAt,
              deadline |-> t.Deadline]
        ELSE IF t.CompletedAt # NilTime
        THEN [id |-> t.ID, completed |-> t.Completed,
              created_at |-> t.CreatedAt, updated_at |-> t.UpdatedAt,
              completed_at |-> t.CompletedAt]
        ELSE base

\* json.Unmarshal into a fresh Todo: a key that is absent leaves the zero
\* value of its field
Unmarshal(doc) ==
    [ID |-> doc.id,
     Deadline |-> IF "deadline" \in DOMAIN doc THEN doc.deadline ELSE NilTime,
     Completed |-> doc.completed,
     CompletedAt |-> IF "completed_at" \in DOMAIN doc
                     THEN doc.completed_at ELSE NilTime,
     CreatedAt |-> doc.created_at,
     UpdatedAt |-> doc.updated_at]

---------------------------------------------------------------------------
(* internal/storage/storage.go : streak *)

\* the value GetStreak builds when the bucket holds no "current" key
ZeroStreak ==
    [CurrentStreak |-> 0, MaxStreak |-> 0, LastCompletedAt |-> ZeroTime,
     TotalCompleted |-> 0, DailyCompletions |-> [d \in Days |-> 0]]

GetStreak ==
    IF StreakKey \in DOMAIN streaks THEN streaks[StreakKey] ELSE ZeroStreak

\* the bucket after a successful UpdateStreak(s)
UpdateStreak_DropsTotal(s) ==
    [k \in {StreakKey} |-> [s EXCEPT !.TotalCompleted = 0]]

UpdateStreak(s) == [k \in {StreakKey} |-> s]

\* now.Format("2006-01-02"): the calendar-day label of an instant
Format(t) == t \div HoursPerDay

\* int(now.Sub(last).Hours() / 24): the conversion truncates toward zero
daysSinceLastCompletion_Calendar(t, lastAt) ==
    Format(t) - Format(lastAt)

daysSinceLastCompletion(t, lastAt) ==
    LET h == t - lastAt
    IN  IF h >= 0 THEN h \div HoursPerDay ELSE -((-h) \div HoursPerDay)

\* lines 237-238: the day's bucket and the total are incremented
Counted(s, today) ==
    [s EXCEPT !.DailyCompletions[today] = @ + 1, !.TotalCompleted = @ + 1]

\* lines 247-250: daysSinceLastCompletion = 1
NextDay_KeepsMax(s) ==
    [s EXCEPT !.CurrentStreak = @ + 1]

NextDay(s) ==
    LET c == s.CurrentStreak + 1
    IN  [s EXCEPT !.CurrentStreak = c, !.MaxStreak = IF c > @ THEN c ELSE @]

\* line 252: daysSinceLastCompletion is neither 0 nor 1
Broken_ToZero(s) ==
    [s EXCEPT !.CurrentStreak = 0]

Broken(s) ==
    [s EXCEPT !.CurrentStreak = 1]

\* lines 255-258: no completion was recorded before
FirstEver_KeepsMax(s) ==
    [s EXCEPT !.CurrentStreak = 1]

FirstEver(s) ==
    [s EXCEPT !.CurrentStreak = 1, !.MaxStreak = IF @ = 0 THEN 1 ELSE @]

\* lines 240-259: the branch taken on the gap since the last completion
Branch_NoNextDay(s, t) ==
    IF s.LastCompletedAt # ZeroTime
    THEN LET d == daysSinceLastCompletion(t, s.LastCompletedAt)
         IN  IF d = 0 THEN s ELSE Broken(s)
    ELSE FirstEver(s)

Branch(s, t) ==
    IF s.LastCompletedAt # ZeroTime
    THEN LET d == daysSinceLastCompletion(t, s.LastCompletedAt)
         IN  IF d = 0 THEN s
             ELSE IF d = 1 THEN NextDay(s)
             ELSE Broken(s)
    ELSE FirstEver(s)

\* line 261: the last-completion instant is set on every path
Stamped_OnChange(s, old, t) ==
    IF s.CurrentStreak # old.CurrentStreak
    THEN [s EXCEPT !.LastCompletedAt = t] ELSE s

Stamped(s, old, t) ==
    [s EXCEPT !.LastCompletedAt = t]

\* lines 231-261: the streak written by updateStreakOnCompletion at instant t
\* over the streak s read from the bucket
NextStreak(s, t) ==
    Stamped(Branch(Counted(s, Format(t)), t), s, t)

\* updateStreakOnCompletion: the bucket after the call; dbOk is whether the
\* read and the write of the bucket succeed (the caller ignores the error)
updateStreakOnCompletion(t, dbOk) ==
    IF dbOk THEN UpdateStreak(NextStreak(GetStreak, t)) ELSE streaks

---------------------------------------------------------------------------
(* history *)

Call(op, err, existed, was, completed, fired) ==
    [op |-> op, err |-> err, existed |-> existed, wasCompleted |-> was,
     completed |-> completed, fired |-> fired, prev |-> GetStreak]

NoCall == Call("none", FALSE, FALSE, FALSE, FALSE, FALSE)

FirstAfter(fired) ==
    IF fired /\ first = ZeroTime THEN now ELSE first

\* the history of the todo bucket after a put of rec that succeeded or not
PutTodo(rec, putOk) ==
    IF putOk
    THEN [k \in DOMAIN written.todos \cup {rec.ID} |->
            IF k = rec.ID THEN rec ELSE written.todos[k]]
    ELSE written.todos

\* the history of the streak bucket after updateStreakOnCompletion
PutStreak(s, ok) ==
    IF ok THEN [k \in {StreakKey} |-> s] ELSE written.streak

---------------------------------------------------------------------------
(* internal/storage/storage.go : todos *)

\* line 170: when UpdateTodo runs the streak transition
streakDue_Unguarded(err, wasCompleted, completed) ==
    completed

streakDue(err, wasCompleted, completed) ==
    err /\ ~wasCompleted /\ completed

\* GetTodo(id), for an id that is stored
GetTodo(id) == Unmarshal(todos[id])

\* SaveTodo(todo); putOk is whether db.Update commits
SaveTodo(todo, putOk) ==
    LET rec == [todo EXCEPT !.CreatedAt = now, !.UpdatedAt = now]
    IN  /\ todos' = IF putOk
                    THEN [k \in DOMAIN todos \cup {todo.ID} |->
                            IF k = todo.ID THEN Marshal(rec) ELSE todos[k]]
                    ELSE todos
        /\ last' = Call("SaveTodo", ~putOk, todo.ID \in DOMAIN todos, FALSE,
                        todo.Completed, FALSE)
        /\ written' = [written EXCEPT !.todos = PutTodo(rec, putOk)]
        /\ UNCHANGED <<now, streaks, first, item, out, deadline>>

\* UpdateTodo(todo); putOk is whether db.Update commits, streakOk whether
\* the streak bucket can be read and written
UpdateTodo(todo, putOk, streakOk) ==
    LET wasCompleted == IF todo.ID \in DOMAIN todos
                        THEN GetTodo(todo.ID).Completed ELSE FALSE
        rec   == [todo EXCEPT !.UpdatedAt = now]
        err   == ~putOk
        due   == streakDue(err, wasCompleted, todo.Completed)
        fired == due /\ streakOk
    IN  /\ due => GetStreak.TotalCompleted < MaxCompletions
        /\ todos' = IF putOk
                    THEN [k \in DOMAIN todos \cup {todo.ID} |->
                            IF k = todo.ID THEN Marshal(rec) ELSE todos[k]]
                    ELSE todos
        /\ streaks' = IF due THEN updateStreakOnCompletion(now, streakOk)
                      ELSE streaks
        /\ last' = Call("UpdateTodo", err, todo.ID \in DOMAIN todos,
                        wasCompleted, todo.Completed, fired)
        /\ first' = FirstAfter(fired)
        /\ written' = [todos |-> PutTodo(rec, putOk),
                       streak |-> PutStreak(NextStreak(GetStreak, now), fired)]
        /\ UNCHANGED <<now, item, out, deadline>>

\* DeleteTodo(id)
DeleteTodo(id, putOk) ==
    /\ todos' = IF putOk
                THEN [k \in DOMAIN todos \ {id} |-> todos[k]]
                ELSE todos
    /\ last' = Call("DeleteTodo", ~putOk, id \in DOMAIN todos, FALSE, FALSE, FALSE)
    /\ written' = [written EXCEPT !.todos =
                      IF putOk THEN [k \in DOMAIN @ \ {id} |-> @[k]] ELSE @]
    /\ UNCHANGED <<now, streaks, first, item, out, deadline>>

---------------------------------------------------------------------------
(* callers *)

\* cmd/main.go and the storage tests: the todos handed to SaveTodo
NewTodos ==
    { [NewTodo(id) EXCEPT !.Deadline = dl, !.Completed = c] :
        id \in IDs, dl \in Deadlines, c \in BOOLEAN }

\* the record a caller holds for id: the stored one (GetTodo, GetAllTodos),
\* or a fresh one when nothing is stored
Held(id) == IF id \in DOMAIN todos THEN GetTodo(id) ELSE NewTodo(id)

\* ui/list.go toggleComplete and the storage tests: the todos handed to
\* UpdateTodo are held records after MarkComplete, MarkIncomplete or an edit
\* of another field
Edited(id) ==
    { MarkComplete(Held(id), now), MarkIncomplete(Held(id), now), Held(id) }

---------------------------------------------------------------------------
(* clock *)

Tick(d, max) ==
    /\ now + d <= max
    /\ now' = now + d
    /\ last' = NoCall
    /\ UNCHANGED <<todos, streaks, first, written, item, out, deadline, ui>>

\* one direct application of updateStreakOnCompletion
RecordCompletion(dbOk) ==
    /\ GetStreak.TotalCompleted < MaxCompletions
    /\ streaks' = updateStreakOnCompletion(now, dbOk)
    /\ last' = Call("updateStreakOnCompletion", FALSE, FALSE, FALSE, TRUE, dbOk)
    /\ first' = FirstAfter(dbOk)
    /\ written' = [written EXCEPT !.streak =
                      PutStreak(NextStreak(GetStreak, now), dbOk)]
    /\ UNCHANGED <<now, todos, item, out, deadline, ui>>

---------------------------------------------------------------------------
(* internal/storage/storage.go : views *)

\* b.ForEach in GetAllTodos: the stored todos, decoded, in key order
ForEach(bucket) ==
    LET ks == SelectSeq(KeyOrder, LAMBDA k : k \in DOMAIN bucket)
    IN  [i \in 1 .. Len(ks) |-> Unmarshal(bucket[ks[i]])]

\* sort.Slice permutes a slice of n elements
Orderings(n) ==
    {p \in [1 .. n -> 1 .. n] : \A i, j \in 1 .. n : p[i] = p[j] => i = j}

Permuted(seq, p) == [i \in 1 .. Len(seq) |-> seq[p[i]]]

\* lines 122-143: the comparison GetAllTodos sorts with
less_CompletedFirst(x, y) ==
    IF x.Completed # y.Completed THEN x.Completed
    ELSE IF ~x.Completed /\ x.Deadline # NilTime /\ y.Deadline # NilTime
    THEN x.Deadline < y.Deadline
    ELSE IF ~x.Completed /\ x.Deadline # NilTime THEN TRUE
    ELSE IF ~x.Completed /\ y.Deadline # NilTime THEN FALSE
    ELSE x.CreatedAt > y.CreatedAt

less_LatestFirst(x, y) ==
    IF x.Completed # y.Completed THEN ~x.Completed
    ELSE IF ~x.Completed /\ x.Deadline # NilTime /\ y.Deadline # NilTime
    THEN x.Deadline > y.Deadline
    ELSE IF ~x.Completed /\ x.Deadline # NilTime THEN TRUE
    ELSE IF ~x.Completed /\ y.Deadline # NilTime THEN FALSE
    ELSE x.CreatedAt > y.CreatedAt

less_NotBefore(x, y) ==
    IF x.Completed # y.Completed THEN ~x.Completed
    ELSE IF ~x.Completed /\ x.Deadline # NilTime /\ y.Deadline # NilTime
    THEN x.Deadline < y.Deadline
    ELSE IF ~x.Completed /\ x.Deadline # NilTime THEN TRUE
    ELSE IF ~x.Completed /\ y.Deadline # NilTime THEN FALSE
    ELSE x.CreatedAt >= y.CreatedAt

less(x, y) ==
    IF x.Completed # y.Completed THEN ~x.Completed
    ELSE IF ~x.Completed /\ x.Deadline # NilTime /\ y.Deadline # NilTime
    THEN x.Deadline < y.Deadline
    ELSE IF ~x.Completed /\ x.Deadline # NilTime THEN TRUE
    ELSE IF ~x.Completed /\ y.Deadline # NilTime THEN FALSE
    ELSE x.CreatedAt > y.CreatedAt

\* sort.Slice(todos, less): the slice is permuted so that no element is less
\* than an element before it; the sort is not stable, so elements that less
\* does not order may come out either way
SortedTodos(seq) ==
    {l \in {Permuted(seq, p) : p \in Orderings(Len(seq))} :
        \A i, j \in 1 .. Len(l) : i < j => ~less(l[j], l[i])}

\* GetAllTodos(); viewOk is whether db.View succeeds
GetAllTodos(viewOk) ==
    /\ \E l \in (IF viewOk THEN SortedTodos(ForEach(todos)) ELSE {<<>>}) :
          out' = [op |-> "GetAllTodos", err |-> ~viewOk,
                  input |-> ForEach(todos), limit |-> 0, list |-> l]
    /\ last' = NoCall
    /\ UNCHANGED <<now, todos, streaks, first, written, item, deadline, ui>>

\* line 275: the todos GetTopUpcomingTodos keeps
isUpcoming_AnyState(t) == t.Deadline # NilTime

isUpcoming(t) == ~t.Completed /\ t.Deadline # NilTime

\* lines 280-285: the comparison GetTopUpcomingTodos sorts with
upcomingLess(x, y) ==
    IF x.Deadline = NilTime \/ y.Deadline = NilTime THEN FALSE
    ELSE x.Deadline < y.Deadline

\* sort.Slice(upcomingTodos, upcomingLess)
SortedUpcoming(seq) ==
    {l \in {Permuted(seq, p) : p \in Orderings(Len(seq))} :
        \A i, j \in 1 .. Len(l) : i < j => ~upcomingLess(l[j], l[i])}

\* lines 287-290: at most limit todos are returned
Truncated_OneShort(seq, limit) ==
    IF Len(seq) > limit /\ limit > 0 THEN SubSeq(seq, 1, limit - 1) ELSE seq

Truncated(seq, limit) ==
    IF Len(seq) > limit THEN SubSeq(seq, 1, limit) ELSE seq

\* GetTopUpcomingTodos(input, limit): the slices it may return
TopUpcoming(input, limit) ==
    {Truncated(l, limit) : l \in SortedUpcoming(SelectSeq(input, isUpcoming))}

GetTopUpcomingTodos(limit) ==
    /\ \E l \in TopUpcoming(ForEach(todos), limit) :
          out' = [op |-> "GetTopUpcomingTodos", err |-> FALSE,
                  input |-> ForEach(todos), limit |-> limit, list |-> l]
    /\ last' = NoCall
    /\ UNCHANGED <<now, todos, streaks, first, written, item, deadline, ui>>

\* line 297: the todos GetTodosWithoutDeadline keeps
isNoDeadline_AnyState(t) == t.Deadline = NilTime

isNoDeadline(t) == ~t.Completed /\ t.Deadline = NilTime

\* GetTodosWithoutDeadline(input)
GetTodosWithoutDeadline ==
    /\ out' = [op |-> "GetTodosWithoutDeadline", err |-> FALSE,
               input |-> ForEach(todos), limit |-> 0,
               list |-> SelectSeq(ForEach(todos), isNoDeadline)]
    /\ last' = NoCall
    /\ UNCHANGED <<now, todos, streaks, first, written, item, deadline, ui>>

---------------------------------------------------------------------------
(* internal/storage/storage.go : the streak API *)

\* the streaks a caller hands to UpdateStreak, as in TestBoltStorage_Streak
StreakInputs ==
    {[ZeroStreak EXCEPT !.CurrentStreak = c, !.MaxStreak = m,
                        !.TotalCompleted = n, !.LastCompletedAt = l] :
        c \in {0, 5}, m \in {10}, n \in {0, 50}, l \in {ZeroTime, now}}

\* no value read from the store is held
NoRead ==
    [op |-> "none", err |-> FALSE, input |-> <<>>, limit |-> 0, list |-> <<>>]

\* s.UpdateStreak(streak); putOk is whether db.Update commits
CallUpdateStreak(s, putOk) ==
    /\ streaks' = IF putOk THEN UpdateStreak(s) ELSE streaks
    /\ written' = [written EXCEPT !.streak = PutStreak(s, putOk)]
    /\ last' = Call("UpdateStreak", ~putOk, FALSE, FALSE, FALSE, FALSE)
    /\ out' = NoRead
    /\ UNCHANGED <<now, todos, first, item, deadline, ui>>

\* s.GetStreak(); viewOk is whether db.View succeeds.  out.input keeps what
\* the history says the bucket holds at the instant of the read
CallGetStreak(viewOk) ==
    /\ out' = [op |-> "GetStreak", err |-> ~viewOk,
               input |-> IF StreakKey \in DOMAIN written.streak
                         THEN <<written.streak[StreakKey]>> ELSE <<>>,
               limit |-> 0,
               list |-> IF viewOk THEN <<GetStreak>> ELSE <<>>]
    /\ last' = NoCall
    /\ UNCHANGED <<now, todos, streaks, first, written, item, deadline, ui>>

---------------------------------------------------------------------------
(* a Todo held in memory *)

\* item.MarkComplete()
CallMarkComplete ==
    /\ item' = MarkComplete(item, now)
    /\ last' = Call("MarkComplete", FALSE, FALSE, item.Completed, TRUE, FALSE)
    /\ UNCHANGED <<now, todos, streaks, first, written, out, deadline, ui>>

\* item.MarkIncomplete()
CallMarkIncomplete ==
    /\ item' = MarkIncomplete(item, now)
    /\ last' = Call("MarkIncomplete", FALSE, FALSE, item.Completed, FALSE, FALSE)
    /\ UNCHANGED <<now, todos, streaks, first, written, out, deadline, ui>>

---------------------------------------------------------------------------
(* internal/utils : strings, strconv and regexp as the deadline parser     *)
(* uses them.  A text is a sequence of one-character strings.              *)

\* time.Minute and time.Hour; durations and parsed instants are counted in
\* minutes
Minute == 1
Hour == 60

\* the characters of a decimal number, in the order of their values
Numerals == <<"0", "1", "2", "3", "4", "5", "6", "7", "8", "9">>

isDigit(c) == \E i \in 1 .. Len(Numerals) : Numerals[i] = c

\* strconv.Atoi of a run of digits
Atoi(run) ==
    LET value[n \in 0 .. Len(run)] ==
            IF n = 0 THEN 0
            ELSE value[n - 1] * 10
                 + (CHOOSE i \in 1 .. Len(Numerals) : Numerals[i] = run[n]) - 1
    IN  value[Len(run)]

\* the upper-case letters of the texts and their lower-case forms
UpperCase == <<"M", "H", "D", "W", "X">>
LowerCase == <<"m", "h", "d", "w", "x">>

\* strings.ToLower
ToLower(s) ==
    [i \in 1 .. Len(s) |->
        IF \E k \in 1 .. Len(UpperCase) : UpperCase[k] = s[i]
        THEN LowerCase[CHOOSE k \in 1 .. Len(UpperCase) : UpperCase[k] = s[i]]
        ELSE s[i]]

\* the characters strings.TrimSpace strips
WhiteSpace == {" ", "\t"}

\* strings.TrimSpace
TrimSpace(s) ==
    LET inside == {i \in 1 .. Len(s) : s[i] \notin WhiteSpace}
    IN  IF inside = {} THEN <<>>
        ELSE SubSeq(s, CHOOSE i \in inside : \A j \in inside : i <= j,
                       CHOOSE i \in inside : \A j \in inside : i >= j)

\* the members of a set of positions, in increasing order
Ascending(S) ==
    [n \in 1 .. Cardinality(S) |->
        CHOOSE x \in S : Cardinality({y \in S : y < x}) = n - 1]

\* s without the characters at the positions of drop
Removed(s, drop) ==
    LET keep == Ascending((1 .. Len(s)) \ drop)
    IN  [n \in 1 .. Len(keep) |-> s[keep[n]]]

\* strings.ReplaceAll(s, c, "") for a one-character c
ReplaceAll(s, c) == Removed(s, {i \in 1 .. Len(s) : s[i] = c})

\* strings.Index: the first position at which old occurs in s, or 0
Index(s, old) ==
    LET at == {i \in 1 .. Len(s) - Len(old) + 1 :
                 SubSeq(s, i, i + Len(old) - 1) = old}
    IN  IF at = {} THEN 0 ELSE CHOOSE i \in at : \A j \in at : i <= j

\* strings.Replace(s, old, new, 1)
Replace(s, old, new) ==
    LET i == Index(s, old)
    IN  IF i = 0 THEN s
        ELSE SubSeq(s, 1, i - 1) \o new \o SubSeq(s, i + Len(old), Len(s))

\* the marker characters of the two patterns (\d+)M and (\d+)([mhdw])
monthRegex == {"M"}
unitRegex == {"m", "h", "d", "w"}

\* the last position of the run of digits that starts at position i
runEnd(s, i) ==
    CHOOSE j \in i .. Len(s) :
        /\ \A k \in i .. j : isDigit(s[k])
        /\ j = Len(s) \/ ~isDigit(s[j + 1])

\* Regexp.FindAllStringSubmatch(s, -1) for a pattern (\d+)<marker>: from left
\* to right, every maximal run of digits that a marker follows
FindAllStringSubmatch(marks, s) ==
    LET starts == Ascending({i \in 1 .. Len(s) :
                      /\ isDigit(s[i])
                      /\ i = 1 \/ ~isDigit(s[i - 1])
                      /\ runEnd(s, i) < Len(s)
                      /\ s[runEnd(s, i) + 1] \in marks})
    IN  [n \in 1 .. Len(starts) |->
            [whole  |-> SubSeq(s, starts[n], runEnd(s, starts[n]) + 1),
             number |-> SubSeq(s, starts[n], runEnd(s, starts[n])),
             unit   |-> s[runEnd(s, starts[n]) + 1],
             from   |-> starts[n],
             to     |-> runEnd(s, starts[n]) + 1]]

\* Regexp.ReplaceAllString(s, "")
ReplaceAllString(marks, s) ==
    LET found == FindAllStringSubmatch(marks, s)
    IN  Removed(s, UNION {found[n].from .. found[n].to : n \in 1 .. Len(found)})

---------------------------------------------------------------------------
(* the local calendar (package time); the zone has a fixed offset *)

\* the calendar year whose 1 January 00:00 is hour 0
BaseYear == 2024

\* the years the calendar is computed for
LastYear == BaseYear + 9

isLeap(y) == (y % 4 = 0 /\ y % 100 # 0) \/ y % 400 = 0

daysIn(m, y) ==
    IF m = 2 THEN (IF isLeap(y) THEN 29 ELSE 28)
    ELSE IF m \in {4, 6, 9, 11} THEN 30 ELSE 31

\* days from 1 January of BaseYear to the first day of month m of year y
daysBefore(y, m) ==
    LET years[k \in BaseYear .. y] ==
            IF k = BaseYear THEN 0
            ELSE years[k - 1] + (IF isLeap(k - 1) THEN 366 ELSE 365)
        inYear[k \in 1 .. m] ==
            IF k = 1 THEN 0 ELSE inYear[k - 1] + daysIn(k - 1, y)
    IN  years[y] + inYear[m]

\* time.Date(y, m, d, h, mi, 0, 0, time.Local), in minutes: a month beyond
\* December and a day beyond the end of its month carry over
Date(y, m, d, h, mi) ==
    LET yy == y + ((m - 1) \div 12)
        mm == ((m - 1) % 12) + 1
    IN  (daysBefore(yy, mm) + d - 1) * 24 * Hour + h * Hour + mi * Minute

\* Time.Date() and Time.Clock() of an instant given in minutes
Civil(t) ==
    LET n == t \div (24 * Hour)
        y == CHOOSE k \in BaseYear .. LastYear :
                 daysBefore(k, 1) <= n /\ n < daysBefore(k + 1, 1)
        m == CHOOSE k \in 1 .. 12 :
                 daysBefore(y, k) <= n /\ n < daysBefore(y, k) + daysIn(k, y)
    IN  [year |-> y, month |-> m, day |-> n - daysBefore(y, m) + 1,
         hour |-> (t % (24 * Hour)) \div Hour, minute |-> t % Hour]

\* Time.AddDate(0, months, 0)
AddDate(t, months) ==
    LET c == Civil(t)
    IN  Date(c.year, c.month + months, c.day, c.hour, c.minute)

\* time.ParseInLocation("2006-01-02 15:04", s, time.Local): a four-digit
\* year, two-digit month and day, one or more spaces, an hour of one or two
\* digits, a two-digit minute, nothing after; every field in range
ParseInLocation(s) ==
    LET digitsAt(i, j) == j <= Len(s) /\ \A k \in i .. j : isDigit(s[k])
        charAt(i, c) == i <= Len(s) /\ s[i] = c
        rest == {i \in 12 .. Len(s) : s[i] # " "}
        p == IF rest = {} THEN Len(s) + 1
             ELSE CHOOSE i \in rest : \A j \in rest : i <= j
        q == IF digitsAt(p, p + 1) THEN p + 1 ELSE p
        shaped ==
            /\ digitsAt(1, 4) /\ charAt(5, "-")
            /\ digitsAt(6, 7) /\ charAt(8, "-")
            /\ digitsAt(9, 10) /\ charAt(11, " ")
            /\ digitsAt(p, p) /\ charAt(q + 1, ":")
            /\ digitsAt(q + 2, q + 3) /\ Len(s) = q + 3
        year == Atoi(SubSeq(s, 1, 4))
        month == Atoi(SubSeq(s, 6, 7))
        day == Atoi(SubSeq(s, 9, 10))
        hour == Atoi(SubSeq(s, p, q))
        min == Atoi(SubSeq(s, q + 2, q + 3))
    IN  IF /\ shaped
           /\ month \in 1 .. 12 /\ hour < 24 /\ min < 60
           /\ day \in 1 .. daysIn(month, year)
        THEN [ok |-> TRUE, instant |-> Date(year, month, day, hour, min)]
        ELSE [ok |-> FALSE, instant |-> ZeroTime]

---------------------------------------------------------------------------
(* internal/utils : the deadline parser *)

\* An error is the sequence of the parts of its message; the nil error has
\* none.

\* parseTimeUnit(value, unit)
parseTimeUnit_WeekOfHours(value, unit) ==
    IF unit = "m" THEN [duration |-> value * Minute, err |-> <<>>]
    ELSE IF unit = "h" THEN [duration |-> value * Hour, err |-> <<>>]
    ELSE IF unit = "d" THEN [duration |-> value * 24 * Hour, err |-> <<>>]
    ELSE IF unit = "w" THEN [duration |-> value * 7 * Hour, err |-> <<>>]
    ELSE [duration |-> 0,
          err |-> <<"invalid time unit: ", unit, " (use: m, h, d, w, M)">>]

parseTimeUnit(value, unit) ==
    IF unit = "m" THEN [duration |-> value * Minute, err |-> <<>>]
    ELSE IF unit = "h" THEN [duration |-> value * Hour, err |-> <<>>]
    ELSE IF unit = "d" THEN [duration |-> value * 24 * Hour, err |-> <<>>]
    ELSE IF unit = "w" THEN [duration |-> value * 7 * 24 * Hour, err |-> <<>>]
    ELSE [duration |-> 0,
          err |-> <<"invalid time unit: ", unit, " (use: m, h, d, w, M)">>]

\* lines 44-56: the month tokens are summed; the first that is not positive
\* ends the call
monthCount(monthMatches) ==
    LET sum[n \in 0 .. Len(monthMatches)] ==
            IF n = 0 THEN [months |-> 0, err |-> <<>>]
            ELSE IF sum[n - 1].err # <<>> THEN sum[n - 1]
            ELSE IF Atoi(monthMatches[n].number) <= 0
            THEN [months |-> 0, err |-> <<"time values must be postivie">>]
            ELSE [months |-> sum[n - 1].months + Atoi(monthMatches[n].number),
                  err |-> <<>>]
    IN  sum[Len(monthMatches)]

\* lines 58-59: the text the unit tokens are looked for in
processedInput_KeepsCase(originalInput) ==
    ReplaceAllString(monthRegex, originalInput)

processedInput(originalInput) ==
    ToLower(ReplaceAllString(monthRegex, originalInput))

\* line 62: nothing was recognised
noUnits_Unchecked(matches, months) ==
    FALSE

noUnits(matches, months) ==
    Len(matches) = 0 /\ months = 0

\* lines 66-72 and 79: the unit tokens joined, and one M for every month
reconstructed(matches, months) ==
    LET joined[n \in 0 .. Len(matches)] ==
            IF n = 0 THEN <<>> ELSE joined[n - 1] \o matches[n].whole
    IN  ToLower(joined[Len(matches)] \o [i \in 1 .. months |-> "M"])

\* lines 74-78: the input without blanks, in lower case, with an M put for
\* the first occurrence of each month token
inputNoSpace(originalInput, monthMatches) ==
    LET put[n \in 0 .. Len(monthMatches)] ==
            IF n = 0
            THEN ToLower(ReplaceAll(ReplaceAll(originalInput, " "), "\t"))
            ELSE Replace(put[n - 1], ToLower(monthMatches[n].whole), <<"M">>)
    IN  put[Len(monthMatches)]

\* line 102: totalDuration += unitDuration
Added_Overwrites(total, unitDuration) ==
    unitDuration

Added(total, unitDuration) ==
    total + unitDuration

\* lines 85-103: the unit tokens are added up from left to right; the first
\* that is not positive, or has no known unit, ends the call
totalDuration(matches) ==
    LET loop[n \in 0 .. Len(matches)] ==
            IF n = 0 THEN [duration |-> 0, err |-> <<>>]
            ELSE IF loop[n - 1].err # <<>> THEN loop[n - 1]
            ELSE IF Atoi(matches[n].number) <= 0
            THEN [duration |-> 0,
                  err |-> <<"time values must be positive">>]
            ELSE LET u == parseTimeUnit(Atoi(matches[n].number), matches[n].unit)
                 IN  IF u.err # <<>> THEN u
                     ELSE [duration |-> Added(loop[n - 1].duration, u.duration),
                           err |-> <<>>]
    IN  loop[Len(matches)]

\* lines 105-110: the months as the time from t to t plus that many
\* calendar months
monthsDuration(t, months) ==
    IF months > 0 THEN AddDate(t, months) - t ELSE 0

\* parseRelativeTime(input) called at instant t (minutes)
parseRelativeTime(originalInput, t) ==
    LET monthMatches == FindAllStringSubmatch(monthRegex, originalInput)
        counted == monthCount(monthMatches)
        months == counted.months
        matches == FindAllStringSubmatch(unitRegex, processedInput(originalInput))
        units == totalDuration(matches)
        total == units.duration + monthsDuration(t, months)
    IN  IF counted.err # <<>> THEN [duration |-> 0, err |-> counted.err]
        ELSE IF noUnits(matches, months)
        THEN [duration |-> 0,
              err |-> <<"no valid time units found (use: m, h, d, w, M)">>]
        ELSE IF Len(reconstructed(matches, months))
                  # Len(inputNoSpace(originalInput, monthMatches))
        THEN [duration |-> 0,
              err |-> <<"contains invalid characters or format">>]
        ELSE IF units.err # <<>> THEN [duration |-> 0, err |-> units.err]
        ELSE IF total <= 0 /\ months = 0
        THEN [duration |-> 0,
              err |-> <<"total duration must be positive">>]
        ELSE [duration |-> total, err |-> <<>>]

\* line 21: the input with the blanks around it removed
trimmed_AsGiven(s) ==
    s

trimmed(s) ==
    TrimSpace(s)

\* lines 26-28: the text read as an absolute timestamp
absolute_WrongLayout(s) ==
    [ok |-> FALSE, instant |-> ZeroTime]

absolute(s) ==
    ParseInLocation(s)

\* ParseDeadline(input) called at instant t (minutes)
ParseDeadline(s, t) ==
    LET text == trimmed(s)
        abs == absolute(text)
        rel == parseRelativeTime(text, t)
    IN  IF text = <<>>
        THEN [deadline |-> NilTime, err |-> <<"deadline cannot be empty">>]
        ELSE IF abs.ok THEN [deadline |-> abs.instant, err |-> <<>>]
        ELSE IF rel.err # <<>>
        THEN [deadline |-> NilTime,
              err |-> <<"invalid deadline format: ">> \o rel.err
                      \o <<"\nSupported formats:\n  - Absolute: YYYY-MM-DD HH:MM (e.g., 2025-11-16 14:30)\n  - Relative: 1d, 2h, 3w, 1M (e.g., 2d 3h 20m)">>]
        ELSE [deadline |-> t + rel.duration, err |-> <<>>]

\* parseTimeUnit is handed the number and the unit code of the text
CallParseTimeUnit ==
    /\ Len(deadline) >= 2
    /\ \A i \in 1 .. Len(deadline) - 1 : isDigit(deadline[i])
    /\ out' = [op |-> "parseTimeUnit", input |-> deadline,
               value |-> Atoi(SubSeq(deadline, 1, Len(deadline) - 1)),
               unit |-> deadline[Len(deadline)],
               result |-> parseTimeUnit(Atoi(SubSeq(deadline, 1, Len(deadline) - 1)),
                                        deadline[Len(deadline)])]
    /\ last' = NoCall
    /\ UNCHANGED <<now, todos, streaks, first, written, item, deadline, ui>>

\* parseRelativeTime is handed the text
CallParseRelativeTime ==
    /\ out' = [op |-> "parseRelativeTime", input |-> deadline, at |-> now * Hour,
               result |-> parseRelativeTime(deadline, now * Hour)]
    /\ last' = NoCall
    /\ UNCHANGED <<now, todos, streaks, first, written, item, deadline, ui>>

\* ParseDeadline is handed the text
CallParseDeadline ==
    /\ out' = [op |-> "ParseDeadline", input |-> deadline, at |-> now * Hour,
               result |-> ParseDeadline(deadline, now * Hour)]
    /\ last' = NoCall
    /\ UNCHANGED <<now, todos, streaks, first, written, item, deadline, ui>>

---------------------------------------------------------------------------
(* the texts handed to the parser *)

\* n written in decimal with the given number of digits
Pad(n, width) ==
    [i \in 1 .. width |-> Numerals[((n \div (10 ^ (width - i))) % 10) + 1]]

\* strconv.Itoa for n >= 0
Itoa(n) ==
    Pad(n, CHOOSE w \in 1 .. 9 : n < 10 ^ w /\ (w = 1 \/ n >= 10 ^ (w - 1)))

\* the characters of the short texts
Alphabet == {"0", "1", "2", "m", "d", "M", "x", " "}

\* every text of at most n characters
Texts(n) == UNION {[1 .. k -> Alphabet] : k \in 0 .. n}

\* the texts of blanks only
Blanks(n) == UNION {[1 .. k -> WhiteSpace] : k \in 0 .. n}

\* the inputs of the parser's tests that are longer than the short texts or
\* hold other characters
Samples ==
    { <<"t", "o", "m", "o", "r", "r", "o", "w">>,
      <<"5", "x">>, <<"d">>,
      <<"-", "2", "d">>,
      <<"2", "d", " ", "3", "x">>,
      <<"2", "d", "+", "3", "h">>,
      <<"1", ".", "5", "h">>,
      <<"9", "9", "9", "d">>,
      <<"0", "d">>,
      <<"1", "w", " ", "2", "d", " ", "3", "h", " ", "3", "0", "m">>,
      <<"2", "D", " ", "3", "H">>,
      <<"2", "0", "2", "5", "/", "1", "1", "/", "1", "6", " ", "1", "4", ":",
        "3", "0">> }

\* the magnitudes, the blanks between two tokens and the letter cases of the
\* token texts
Magnitudes == {1, 30}
Gaps == {<<>>, <<" ">>, <<" ", "\t", " ">>}

\* the text of a sequence of tokens [value, unit], gap between two tokens
TokenText(tokens, gap, upper) ==
    LET one(k) == Itoa(tokens[k].value) \o <<tokens[k].unit>>
        text[k \in 1 .. Len(tokens)] ==
            IF k = 1 THEN one(1) ELSE text[k - 1] \o gap \o one(k)
    IN  IF upper THEN [i \in 1 .. Len(text[Len(tokens)]) |->
                         LET c == text[Len(tokens)][i]
                         IN  IF \E k \in 1 .. Len(LowerCase) : LowerCase[k] = c
                             THEN UpperCase[CHOOSE k \in 1 .. Len(LowerCase) :
                                                LowerCase[k] = c]
                             ELSE c]
        ELSE text[Len(tokens)]

TokenTexts(n) ==
    {TokenText(tokens, gap, upper) :
        tokens \in UNION {[1 .. k -> [value : Magnitudes, unit : unitRegex]] :
                            k \in 1 .. n},
        gap \in Gaps, upper \in BOOLEAN}

\* a timestamp written as the layout 2006-01-02 15:04 asks
Stamp(y, m, d, h, mi, sep, gap) ==
    Pad(y, 4) \o <<sep>> \o Pad(m, 2) \o <<sep>> \o Pad(d, 2) \o gap
    \o Pad(h, 2) \o <<":">> \o Pad(mi, 2)

StampYears == {BaseYear, BaseYear + 1}
StampMonths == {2, 12, 13}
StampDays == {1, 29, 31}
StampHours == {9, 23, 24}
StampMinutes == {0, 59, 60}

Stamps ==
    {front \o Stamp(y, m, d, h, mi, sep, gap) :
        y \in StampYears, m \in StampMonths, d \in StampDays,
        h \in StampHours, mi \in StampMinutes, sep \in {"-", "/"},
        gap \in {<<" ">>, <<" ", " ">>}, front \in {<<>>, <<" ">>}}

\* the instants, in hours, at which the parser is called: 31 January 2024
\* 10:00 and 1 February 2025 09:00
ParseInstants ==
    {Date(BaseYear, 1, 31, 10, 0) \div Hour, Date(BaseYear + 1, 2, 1, 9, 0) \div Hour}

---------------------------------------------------------------------------
(* cmd/main.go : the command line *)

\* lines 20-23
MaxTitleLength == 100
MaxDescriptionLength == 500

\* line 85: one of the two required flags is missing
missing(t, d) == t = <<>> \/ d = <<>>

\* lines 91 and 96: a flag is longer than its limit
exceeds_Unchecked(t, d) == FALSE

exceeds(t, d) == Len(t) > MaxTitleLength \/ Len(d) > MaxDescriptionLength

\* lines 101-108: the deadline of the todo, nil when the flag is empty;
\* err is what log.Fatal is handed
deadlineTime(s, t) ==
    IF s = <<>> THEN [deadline |-> NilTime, err |-> <<>>]
    ELSE ParseDeadline(s, t)

\* line 161: the id is the clock reading written in decimal
generateID == Itoa(now)

\* lines 110-117: the todo handed to SaveTodo; the instants of a Todo are
\* whole hours, the parsed deadline is in minutes
CreatedTodo(parsed) ==
    [NewTodo(generateID) EXCEPT
        !.Deadline = IF parsed = NilTime THEN NilTime ELSE parsed \div Hour,
        !.CreatedAt = now,
        !.Completed = FALSE]

\* the list view before NewListModel builds it
NoView ==
    [todos |-> <<>>, topUpcoming |-> <<>>, todosNoDeadline |-> <<>>,
     streak |-> <<>>, cursor |-> 0, currentPage |-> 0, err |-> <<>>,
     loading |-> FALSE, confirmingDelete |-> FALSE, todoToDelete |-> <<>>]

\* main, lines 77-121, for a command line without -list and -help; putOk is
\* whether SaveTodo commits
main(putOk) ==
    LET parsed == deadlineTime(deadline, now * Hour)
        saves  == /\ ~(title = <<>> /\ description = <<>>)
                  /\ ~missing(title, description)
                  /\ ~exceeds(title, description)
                  /\ parsed.err = <<>>
    IN  /\ program = "main"
        /\ IF saves
           THEN /\ SaveTodo(CreatedTodo(parsed.deadline), putOk)
                /\ program' = IF putOk THEN "exit 0" ELSE "exit 1"
           ELSE /\ program' = IF title = <<>> /\ description = <<>>
                              THEN "form" ELSE "exit 1"
                /\ last' = NoCall
                /\ UNCHANGED <<now, todos, streaks, first, written, item, out,
                               deadline>>
        /\ UNCHANGED <<title, description, model, pending, deleted, calls>>

---------------------------------------------------------------------------
(* internal/ui/list.go : the list view.  The slices of todo pointers       *)
(* topUpcoming and todosNoDeadline are kept as positions in model.todos,   *)
(* which holds the todos themselves; a nil pointer or error is <<>>, a     *)
(* pointer or error that is set is a one-element sequence.  The fields     *)
(* that only steer the rendering (expanded, showHelp) and the keys that    *)
(* only write them (Space, ?, h) are left out.                             *)

\* line 13
pageSize == 10

\* line 85: the limit handed to GetTopUpcomingTodos
topLimit == 10

\* lines 40-49
NewListModel == [NoView EXCEPT !.loading = TRUE]

\* line 53 and lines 119, 146, 152: the command loadData, not run yet
LoadDataCmd ==
    [type |-> "loadData", todos |-> <<>>, streak |-> <<>>, err |-> <<>>]

\* the error a failed transaction of the database returns
DbError == <<"database error">>

\* sort.Slice(todos, less), storage.go lines 122-143, for a slice of any
\* length: the orders of the positions of seq in which no element is less
\* than an element before it, built by taking, one after the other, an
\* element that none of the remaining ones is less than
lessOrders(seq) ==
    LET build[S \in SUBSET (1 .. Len(seq))] ==
            IF S = {} THEN {<<>>}
            ELSE UNION {{<<i>> \o rest : rest \in build[S \ {i}]} :
                          i \in {i \in S : \A j \in S : ~less(seq[j], seq[i])}}
    IN  build[1 .. Len(seq)]

\* sort.Slice(upcomingTodos, upcomingLess), storage.go lines 274-285, over
\* the positions of list that GetTopUpcomingTodos keeps
upcomingOrders(list) ==
    LET kept == {i \in 1 .. Len(list) : isUpcoming(list[i])}
        build[S \in SUBSET kept] ==
            IF S = {} THEN {<<>>}
            ELSE UNION {{<<i>> \o rest : rest \in build[S \ {i}]} :
                          i \in {i \in S : \A j \in S :
                                    ~upcomingLess(list[j], list[i])}}
    IN  build[kept]

\* storage.GetTopUpcomingTodos(list, limit), as positions of list
TopUpcomingRefs_NoLimit(list, limit) ==
    upcomingOrders(list)

TopUpcomingRefs(list, limit) ==
    {Truncated(p, limit) : p \in upcomingOrders(list)}

\* storage.GetTodosWithoutDeadline(list), as positions of list
NoDeadlineRefs(list) ==
    SelectSeq([i \in 1 .. Len(list) |-> i], LAMBDA i : isNoDeadline(list[i]))

\* loadData, lines 56-76: the messages it may return; viewOk is whether
\* GetAllTodos succeeds, streakOk whether GetStreak does
loadData(viewOk, streakOk) ==
    IF ~viewOk
    THEN {[type |-> "errMsg", todos |-> <<>>, streak |-> <<>>, err |-> DbError]}
    ELSE {[type |-> "dataLoadedMsg",
           todos |-> [k \in 1 .. Len(p) |-> ForEach(todos)[p[k]]],
           streak |-> <<IF streakOk THEN GetStreak ELSE ZeroStreak>>,
           err |-> <<>>] : p \in lessOrders(ForEach(todos))}

\* getVisibleTodos, lines 426-440, as positions of model.todos
visibleRefs ==
    model.topUpcoming \o model.todosNoDeadline
    \o SelectSeq([i \in 1 .. Len(model.todos) |-> i],
                 LAMBDA i : model.todos[i].Completed)

getVisibleTodos ==
    [k \in 1 .. Len(visibleRefs) |-> model.todos[visibleRefs[k]]]

\* ensureCursorVisible, lines 442-450: the page after the call, for the
\* cursor just set
ensureCursorVisible(cursor) ==
    LET visibleCount == Len(visibleRefs)
        pageCount    == (visibleCount + pageSize - 1) \div pageSize
        targetPage   == cursor \div pageSize
    IN  IF targetPage # model.currentPage /\ targetPage < pageCount
        THEN targetPage ELSE model.currentPage

\* getCurrentTodo, lines 452-458: the position in model.todos of the todo
\* under the cursor, or nil
getCurrentTodo ==
    IF model.cursor >= 0 /\ model.cursor < Len(visibleRefs)
    THEN <<visibleRefs[model.cursor + 1]>> ELSE <<>>

\* the list view runs: the runtime hands Update a message
Running ==
    /\ program = "list"
    /\ UNCHANGED <<title, description>>

\* Update handles a message without calling UpdateTodo or DeleteTodo
StoreUntouched ==
    /\ last' = NoCall
    /\ UNCHANGED <<now, todos, streaks, first, written, item, out, deadline,
                   deleted, calls>>

\* the runtime runs a command loadData and holds the message it returns
RunLoadData(i, viewOk, streakOk) ==
    /\ Running
    /\ pending[i].type = "loadData"
    /\ \E msg \in loadData(viewOk, streakOk) :
          pending' = [pending EXCEPT ![i] = msg]
    /\ StoreUntouched
    /\ UNCHANGED <<program, model>>

\* lines 80-88: case dataLoadedMsg
OnDataLoaded(i) ==
    /\ pending[i].type = "dataLoadedMsg"
    /\ Running
    /\ \E top \in TopUpcomingRefs(pending[i].todos, topLimit) :
          model' = [model EXCEPT
                      !.loading = FALSE,
                      !.todos = pending[i].todos,
                      !.streak = pending[i].streak,
                      !.topUpcoming = top,
                      !.todosNoDeadline = NoDeadlineRefs(pending[i].todos)]
    /\ pending' = [k \in 1 .. Len(pending) - 1 |->
                     IF k < i THEN pending[k] ELSE pending[k + 1]]
    /\ StoreUntouched
    /\ UNCHANGED program

\* lines 90-93: case errMsg
OnErr(i) ==
    /\ pending[i].type = "errMsg"
    /\ Running
    /\ model' = [model EXCEPT !.err = pending[i].err, !.loading = FALSE]
    /\ pending' = [k \in 1 .. Len(pending) - 1 |->
                     IF k < i THEN pending[k] ELSE pending[k + 1]]
    /\ StoreUntouched
    /\ UNCHANGED program

\* lines 97-98: q, ctrl+c and esc end the program with tea.Quit; the runtime
\* drops what it holds
PressQuit(key) ==
    /\ key \in {"q", "ctrl+c", "esc"}
    /\ Running
    /\ program' = "quit"
    /\ pending' = <<>>
    /\ StoreUntouched
    /\ UNCHANGED model

\* lines 100-104: up, k
PressUp ==
    /\ Running
    /\ model' = IF model.cursor > 0
                THEN [model EXCEPT
                        !.cursor = model.cursor - 1,
                        !.currentPage = ensureCursorVisible(model.cursor - 1)]
                ELSE model
    /\ StoreUntouched
    /\ UNCHANGED <<program, pending>>

\* lines 106-110: down, j
PressDown ==
    /\ Running
    /\ model' = IF model.cursor < Len(visibleRefs) - 1
                THEN [model EXCEPT
                        !.cursor = model.cursor + 1,
                        !.currentPage = ensureCursorVisible(model.cursor + 1)]
                ELSE model
    /\ StoreUntouched
    /\ UNCHANGED <<program, pending>>

\* lines 460-470: what toggleComplete makes of the todo under the cursor
toggled(t) ==
    IF t.Completed THEN MarkIncomplete(t, now) ELSE MarkComplete(t, now)

\* lines 115-119 and toggleComplete, lines 460-473: c; UpdateTodo writes
\* UpdatedAt through the pointer, so the todo of the list changes with it
PressC(putOk, streakOk) ==
    /\ Running
    /\ Len(pending) < MaxInFlight
    /\ IF getCurrentTodo = <<>>
       THEN /\ model' = [model EXCEPT !.err = <<"no todo selected">>]
            /\ StoreUntouched
       ELSE LET i    == getCurrentTodo[1]
                todo == toggled(model.todos[i])
            IN  /\ calls < MaxCalls
                /\ UpdateTodo(todo, putOk, streakOk)
                /\ model' = [model EXCEPT
                               !.todos[i] = [todo EXCEPT !.UpdatedAt = now],
                               !.err = IF putOk THEN @ ELSE DbError]
                /\ calls' = calls + 1
                /\ deleted' = deleted
    /\ pending' = Append(pending, LoadDataCmd)
    /\ UNCHANGED program

\* line 123: the todo d asks about, as a position in model.todos
asked_First ==
    IF visibleRefs # <<>> THEN <<visibleRefs[1]>> ELSE <<>>

asked == getCurrentTodo

\* lines 121-129: d
PressD ==
    /\ Running
    /\ model' = IF ~model.confirmingDelete /\ asked # <<>>
                THEN [model EXCEPT
                        !.confirmingDelete = TRUE,
                        !.todoToDelete = <<model.todos[asked[1]]>>]
                ELSE model
    /\ StoreUntouched
    /\ UNCHANGED <<program, pending>>

\* lines 131-137: n dismisses the confirmation, or hands the program to a
\* new form, which replaces the list view
PressN ==
    /\ Running
    /\ IF model.confirmingDelete
       THEN /\ model' = [model EXCEPT !.confirmingDelete = FALSE,
                                      !.todoToDelete = <<>>]
            /\ UNCHANGED <<program, pending>>
       ELSE /\ model' = NoView
            /\ program' = "form"
            /\ pending' = <<>>
    /\ StoreUntouched

\* line 140: when y deletes
confirmed == model.confirmingDelete /\ model.todoToDelete # <<>>

\* lines 139-148: y
PressY(putOk) ==
    /\ Running
    /\ IF confirmed
       THEN /\ Len(pending) < MaxInFlight
            /\ calls < MaxCalls
            /\ calls' = calls + 1
            /\ DeleteTodo(model.todoToDelete[1].ID, putOk)
            /\ model' = [model EXCEPT !.err = IF putOk THEN @ ELSE DbError,
                                      !.confirmingDelete = FALSE,
                                      !.todoToDelete = <<>>]
            /\ pending' = Append(pending, LoadDataCmd)
            /\ deleted' = IF putOk /\ model.todoToDelete[1].ID \in DOMAIN todos
                          THEN deleted \cup {model.todoToDelete[1].ID}
                          ELSE deleted
       ELSE /\ StoreUntouched
            /\ UNCHANGED <<model, pending>>
    /\ UNCHANGED program

\* lines 150-152: r
PressR ==
    /\ Running
    /\ Len(pending) < MaxInFlight
    /\ model' = [model EXCEPT !.loading = TRUE]
    /\ pending' = Append(pending, LoadDataCmd)
    /\ StoreUntouched
    /\ UNCHANGED program

\* lines 157-161: pgup, b
PressPgUp ==
    /\ Running
    /\ model' = IF model.currentPage > 0
                THEN [model EXCEPT !.currentPage = model.currentPage - 1,
                                   !.cursor = 0]
                ELSE model
    /\ StoreUntouched
    /\ UNCHANGED <<program, pending>>

\* lines 163-168: pgdown, f
PressPgDown ==
    /\ Running
    /\ model' = IF (model.currentPage + 1) * pageSize < Len(visibleRefs)
                THEN [model EXCEPT !.currentPage = model.currentPage + 1,
                                   !.cursor = 0]
                ELSE model
    /\ StoreUntouched
    /\ UNCHANGED <<program, pending>>

\* View, lines 176-187: what the view shows
View ==
    IF model.loading THEN "Loading todos..."
    ELSE IF model.err # <<>> THEN "Error"
    ELSE "Todo List"

---------------------------------------------------------------------------
(* specifications *)

\* no list view runs
NoListView ==
    /\ model = NoView
    /\ pending = <<>>
    /\ deleted = {}
    /\ calls = 0

\* neither the command line nor the list view runs
NoProgram ==
    /\ title = <<>>
    /\ description = <<>>
    /\ program = "none"
    /\ NoListView

Init ==
    /\ now = 0
    /\ todos = <<>>
    /\ streaks = <<>>
    /\ last = [op |-> "none", err |-> FALSE, existed |-> FALSE,
               wasCompleted |-> FALSE, completed |-> FALSE, fired |-> FALSE,
               prev |-> ZeroStreak]
    /\ first = ZeroTime
    /\ written = [todos |-> <<>>, streak |-> <<>>]
    /\ item = NewTodo("a")
    /\ out = [op |-> "none", err |-> FALSE, input |-> <<>>, limit |-> 0,
              list |-> <<>>]
    /\ deadline = <<>>
    /\ NoProgram

DoTick == \E d \in ClockSteps : Tick(d, MaxClock)

DoSaveTodo ==
    /\ \E todo \in NewTodos, putOk \in BOOLEAN : SaveTodo(todo, putOk)
    /\ UNCHANGED ui

DoUpdateTodo ==
    /\ \E id \in IDs : \E todo \in Edited(id) : \E putOk, streakOk \in BOOLEAN :
          UpdateTodo(todo, putOk, streakOk)
    /\ UNCHANGED ui

DoDeleteTodo ==
    /\ \E id \in IDs, putOk \in BOOLEAN : DeleteTodo(id, putOk)
    /\ UNCHANGED ui

Next == DoTick \/ DoSaveTodo \/ DoUpdateTodo \/ DoDeleteTodo

Spec == Init /\ [][Next]_vars

TickHour == Tick(1, MaxHour)

DoRecordCompletion == \E dbOk \in BOOLEAN : RecordCompletion(dbOk)

NextStreakOnly == TickHour \/ DoRecordCompletion

SpecStreak == Init /\ [][NextStreakOnly]_vars

\* the todo SaveTodo stores under key k at instant c
Stored(k, dl, done, c) ==
    Marshal([NewTodo(k) EXCEPT !.Deadline = dl, !.Completed = done,
                               !.CreatedAt = c, !.UpdatedAt = c])

Shapes == ViewDeadlines \X BOOLEAN \X CreatedAts

\* the buckets the views are read from: any todos under any of the keys
Buckets(keys) ==
    UNION {{[k \in S |-> Stored(k, f[k][1], f[k][2], f[k][3])] :
              f \in [S -> Shapes]} :
           S \in SUBSET keys}

InitViews ==
    /\ now = MaxClock
    /\ todos \in Buckets(ViewKeys)
    /\ streaks = <<>>
    /\ last = [op |-> "none", err |-> FALSE, existed |-> FALSE,
               wasCompleted |-> FALSE, completed |-> FALSE, fired |-> FALSE,
               prev |-> ZeroStreak]
    /\ first = ZeroTime
    /\ written = [todos |-> [k \in DOMAIN todos |-> Unmarshal(todos[k])],
                  streak |-> <<>>]
    /\ item = NewTodo("a")
    /\ out = [op |-> "none", err |-> FALSE, input |-> <<>>, limit |-> 0,
              list |-> <<>>]
    /\ deadline = <<>>
    /\ NoProgram

DoGetAllTodos == \E viewOk \in BOOLEAN : GetAllTodos(viewOk)

DoGetTopUpcomingTodos == \E limit \in 0 .. MaxLimit : GetTopUpcomingTodos(limit)

NextViews == DoGetAllTodos \/ DoGetTopUpcomingTodos \/ GetTodosWithoutDeadline

SpecViews == InitViews /\ [][NextViews]_vars

TickDay == Tick(HoursPerDay, MaxHour)

DoUpdateStreak ==
    \E s \in StreakInputs, putOk \in BOOLEAN : CallUpdateStreak(s, putOk)

DoGetStreak == \E viewOk \in BOOLEAN : CallGetStreak(viewOk)

NextStreakStore == TickDay \/ DoUpdateStreak \/ DoGetStreak

SpecStreakStore == Init /\ [][NextStreakStore]_vars

NextTodo == TickHour \/ CallMarkComplete \/ CallMarkIncomplete

SpecTodo == Init /\ [][NextTodo]_vars

\* the store and the histories while only the parser runs
NothingStored ==
    /\ todos = <<>>
    /\ streaks = <<>>
    /\ last = [op |-> "none", err |-> FALSE, existed |-> FALSE,
               wasCompleted |-> FALSE, completed |-> FALSE, fired |-> FALSE,
               prev |-> ZeroStreak]
    /\ first = ZeroTime
    /\ written = [todos |-> <<>>, streak |-> <<>>]
    /\ item = NewTodo("a")
    /\ out = [op |-> "none", err |-> FALSE, input |-> <<>>, limit |-> 0,
              list |-> <<>>]

InitParse ==
    /\ now \in ParseInstants
    /\ deadline \in Texts(MaxLen) \cup Blanks(MaxLen) \cup Samples
    /\ NothingStored
    /\ NoProgram

NextParse == CallParseTimeUnit \/ CallParseRelativeTime \/ CallParseDeadline

SpecParse == InitParse /\ [][NextParse]_vars

InitTokens ==
    /\ now \in ParseInstants
    /\ deadline \in TokenTexts(MaxTokens)
    /\ NothingStored
    /\ NoProgram

SpecTokens == InitTokens /\ [][NextParse]_vars

InitStamps ==
    /\ now \in ParseInstants
    /\ deadline \in Stamps
    /\ NothingStored
    /\ NoProgram

NextStamps == CallParseRelativeTime \/ CallParseDeadline

SpecStamps == InitStamps /\ [][NextStamps]_vars

\* the todos a CLI run is handed: titles and descriptions around the limits,
\* as TestValidateCharacterLimits builds them
Repeat(c, n) == [i \in 1 .. n |-> c]

Titles == {Repeat("a", n) : n \in {0, 1, MaxTitleLength, MaxTitleLength + 1}}

Descriptions ==
    {Repeat("b", n) : n \in {0, 1, MaxDescriptionLength, MaxDescriptionLength + 1}}

\* the -n flags: none, the parser's test inputs, single tokens and the
\* README's timestamp
Flags ==
    {<<>>} \cup Samples \cup TokenTexts(1)
    \cup {Stamp(BaseYear + 1, 12, 1, 17, 0, "-", <<" ">>)}

InitMain ==
    /\ now \in ParseInstants
    /\ title \in Titles
    /\ description \in Descriptions
    /\ deadline \in Flags
    /\ program = "main"
    /\ NoListView
    /\ NothingStored

DoMain == \E putOk \in BOOLEAN : main(putOk)

NextMain == DoMain

SpecMain == InitMain /\ [][NextMain]_vars

\* the bucket when the list view opens: under the first keys, up incomplete
\* todos with a deadline (the later the key, the nearer the deadline), then
\* free incomplete todos without one, then done completed todos
ListStore(up, free, done) ==
    [k \in {KeyOrder[i] : i \in 1 .. up + free + done} |->
        LET i == CHOOSE i \in 1 .. Len(KeyOrder) : KeyOrder[i] = k
            t == [NewTodo(k) EXCEPT !.CreatedAt = i, !.UpdatedAt = i]
        IN  Marshal(IF i <= up
                    THEN [t EXCEPT !.Deadline = HoursPerDay * (up + 1 - i)]
                    ELSE IF i <= up + free THEN t
                    ELSE MarkComplete(t, i))]

\* the numbers of todos of each kind in the buckets of the list view
ListShapes == {<<0, 0, 0>>, <<0, 1, 0>>, <<1, 0, 1>>}

\* main, lines 69-75, and Init, lines 52-54: the list view starts with the
\* command loadData
InitListOver(shapes) ==
    /\ now = MaxClock
    /\ todos \in {ListStore(s[1], s[2], s[3]) : s \in shapes}
    /\ streaks = <<>>
    /\ last = [op |-> "none", err |-> FALSE, existed |-> FALSE,
               wasCompleted |-> FALSE, completed |-> FALSE, fired |-> FALSE,
               prev |-> ZeroStreak]
    /\ first = ZeroTime
    /\ written = [todos |-> [k \in DOMAIN todos |-> Unmarshal(todos[k])],
                  streak |-> <<>>]
    /\ item = NewTodo("a")
    /\ out = [op |-> "none", err |-> FALSE, input |-> <<>>, limit |-> 0,
              list |-> <<>>]
    /\ deadline = <<>>
    /\ title = <<>>
    /\ description = <<>>
    /\ program = "list"
    /\ model = NewListModel
    /\ pending = <<LoadDataCmd>>
    /\ deleted = {}
    /\ calls = 0

InitList == InitListOver(ListShapes)

DoRunLoadData ==
    \E i \in 1 .. Len(pending) : \E viewOk, streakOk \in BOOLEAN :
        RunLoadData(i, viewOk, streakOk)

DoOnDataLoaded == \E i \in 1 .. Len(pending) : OnDataLoaded(i)

DoOnErr == \E i \in 1 .. Len(pending) : OnErr(i)

DoPressQuit == \E key \in {"q", "ctrl+c", "esc"} : PressQuit(key)

DoPressC == \E putOk, streakOk \in BOOLEAN : PressC(putOk, streakOk)

DoPressY == \E putOk \in BOOLEAN : PressY(putOk)

NextList ==
    \/ DoRunLoadData \/ DoOnDataLoaded \/ DoOnErr
    \/ DoPressQuit \/ PressUp \/ PressDown \/ DoPressC \/ PressD \/ PressN
    \/ DoPressY \/ PressR \/ PressPgUp \/ PressPgDown

SpecList == InitList /\ [][NextList]_vars

\* buckets around a page of todos
PageShapes ==
    {<<0, 0, 0>>, <<2, 1, 1>>, <<9, 1, 0>>, <<10, 0, 0>>, <<10, 1, 0>>,
     <<11, 0, 0>>, <<11, 0, 1>>, <<8, 2, 2>>, <<0, 11, 0>>, <<0, 0, 12>>}

InitPages == InitListOver(PageShapes)

\* navigation and reloads
NextPages ==
    \/ DoRunLoadData \/ DoOnDataLoaded \/ DoOnErr
    \/ PressUp \/ PressDown \/ PressR \/ PressPgUp \/ PressPgDown

SpecPages == InitPages /\ [][NextPages]_vars

---------------------------------------------------------------------------
(* properties *)

\* the streak state in the bucket, and the one before the last call
cur == GetStreak
old == last.prev

\* a streak transition was applied and persisted by the last step, at now
Fired == last.fired

\* hours elapsed between the completion before the last one and the last one
Elapsed == now - old.LastCompletedAt

HadPrior == old.LastCompletedAt # ZeroTime

Larger(x, y) == IF x > y THEN x ELSE y

\* the last step was an UpdateTodo that persisted a completed todo whose
\* stored record was incomplete
CompletedNow ==
    /\ last.op = "UpdateTodo"
    /\ ~last.err
    /\ last.existed
    /\ ~last.wasCompleted
    /\ last.completed

\* C1: a successful UpdateTodo that turns an incomplete stored todo into a
\* completed one applies the streak transition exactly once: TotalCompleted
\* is one more than before and LastCompletedAt is set.
C1_CompletionCountedOnce ==
    CompletedNow =>
        /\ cur.TotalCompleted = old.TotalCompleted + 1
        /\ cur.LastCompletedAt # ZeroTime

\* C2: a successful UpdateTodo that edits an already completed todo, or
\* stores a todo with Completed = FALSE, leaves the streak state unchanged.
C2_NoStreakChange ==
    (/\ last.op = "UpdateTodo"
     /\ ~last.err
     /\ (last.wasCompleted \/ ~last.completed))
    => cur = old

\* an already completed todo was stored again as completed, with a streak
\* that had counted a completion before
C2_Witness ==
    /\ last.op = "UpdateTodo"
    /\ ~last.err
    /\ last.wasCompleted
    /\ last.completed
    /\ cur.TotalCompleted > 0

C5_BrokenResets ==
    (Fired /\ HadPrior /\ Elapsed >= 48)
    => /\ cur.CurrentStreak = 1
       /\ cur.MaxStreak = old.MaxStreak

\* a streak of 2 was broken by a gap of two days or more
C5_Witness ==
    /\ Fired
    /\ HadPrior
    /\ Elapsed >= 48
    /\ old.CurrentStreak = 2
    /\ cur.MaxStreak = 2

C7_CountsAndStamp ==
    Fired =>
        /\ cur.DailyCompletions[now \div 24] = old.DailyCompletions[now \div 24] + 1
        /\ \A d \in Days \ {now \div 24} :
              cur.DailyCompletions[d] = old.DailyCompletions[d]
        /\ cur.TotalCompleted = old.TotalCompleted + 1
        /\ cur.LastCompletedAt = now

\* a second completion on the same calendar day, some hours after the first
C7_Witness ==
    /\ Fired
    /\ HadPrior
    /\ Elapsed > 0
    /\ Elapsed < 24
    /\ now \div 24 = old.LastCompletedAt \div 24
    /\ cur.DailyCompletions[now \div 24] = 2

\* C8: in every streak state reached from the zero state by completion
\* transitions at non-decreasing instants 0 <= current <= max, and the total
\* never decreases from one state to the next.
C8_StreakBounds ==
    /\ [](0 <= cur.CurrentStreak /\ cur.CurrentStreak <= cur.MaxStreak)
    /\ [][cur'.TotalCompleted >= cur.TotalCompleted]_vars

\* a broken streak: the current streak is below the max streak
C8_Witness ==
    /\ Fired
    /\ cur.CurrentStreak = 1
    /\ cur.MaxStreak = 2
    /\ cur.TotalCompleted = 3

\* the calendar days that have a completion
DaysDone == {d \in Days : cur.DailyCompletions[d] > 0}

\* C9: after at least one completion on each of k consecutive calendar days,
\* and on no other day, the current streak is k.
C9_StreakCountsDays ==
    (/\ DaysDone # {}
     /\ \A d \in Days :
          (\E lo, hi \in DaysDone : lo <= d /\ d <= hi) => d \in DaysDone)
    => cur.CurrentStreak = Cardinality(DaysDone)

\* C10: when a whole calendar day without a completion lies between two
\* consecutive completions, the later one sets the current streak to 1.
C10_MissedDayResets ==
    (Fired /\ HadPrior /\ now \div 24 - old.LastCompletedAt \div 24 >= 2)
    => cur.CurrentStreak = 1

\* C11: a todo created incomplete and without completion timestamp has,
\* after any sequence of MarkComplete and MarkIncomplete calls, a completion
\* timestamp exactly when it is completed, and each call sets UpdatedAt to
\* the instant of the call.
C11_CompletedIffStamped ==
    /\ (item.CompletedAt # NilTime) <=> item.Completed
    /\ last.op \in {"MarkComplete", "MarkIncomplete"} => item.UpdatedAt = now

\* a completed todo was marked incomplete at a later hour
C11_Witness ==
    /\ last.op = "MarkIncomplete"
    /\ last.wasCompleted
    /\ item.UpdatedAt > 0
    /\ item.CompletedAt = NilTime

\* the list a successful GetAllTodos has just returned
Listed == out.op = "GetAllTodos" /\ ~out.err

Pos == 1 .. Len(out.list)

\* the todos in the bucket
StoredTodos == {Unmarshal(todos[k]) : k \in DOMAIN todos}

\* C12: in the list returned by GetAllTodos every incomplete todo comes
\* before every completed todo, whatever is stored under whatever keys.
C12_IncompleteFirst ==
    Listed =>
        \A i, j \in Pos :
            (~out.list[i].Completed /\ out.list[j].Completed) => i < j

\* the bucket order had a completed todo ahead of an incomplete one
C12_Witness ==
    /\ Listed
    /\ Len(out.list) = 3
    /\ out.input[1].Completed
    /\ ~out.input[2].Completed
    /\ out.input[3].Completed

\* the three kinds of todo of the example of C13
KindA(t) == ~t.Completed /\ t.Deadline = NilTime
KindB(t) == ~t.Completed /\ t.Deadline # NilTime
KindC(t) == t.Completed

\* C13: among the incomplete todos of the list returned by GetAllTodos a
\* todo with a deadline comes before every todo without one, and of two
\* different deadlines the earlier comes first; A (incomplete, no deadline),
\* B (incomplete, deadline) and C (completed) are listed as B, A, C.
C13_DeadlineOrder ==
    Listed =>
        /\ \A i, j \in Pos :
              (KindB(out.list[i]) /\ KindA(out.list[j])) => i < j
        /\ \A i, j \in Pos :
              (/\ KindB(out.list[i])
               /\ KindB(out.list[j])
               /\ out.list[i].Deadline < out.list[j].Deadline) => i < j
        /\ (/\ Cardinality(DOMAIN todos) = 3
            /\ \E a, b, c \in StoredTodos : KindA(a) /\ KindB(b) /\ KindC(c))
           => /\ Len(out.list) = 3
              /\ KindB(out.list[1])
              /\ KindA(out.list[2])
              /\ KindC(out.list[3])
              /\ {out.list[i] : i \in Pos} = StoredTodos

\* A, B and C were stored in the order C, A, B and have been listed
C13_Witness ==
    /\ Listed
    /\ Len(out.input) = 3
    /\ KindC(out.input[1])
    /\ KindA(out.input[2])
    /\ KindB(out.input[3])
    /\ out.input[1].CreatedAt > out.input[2].CreatedAt

\* two todos that neither the completion rule nor the deadline rule orders
Tied(x, y) ==
    \/ x.Completed /\ y.Completed
    \/ KindA(x) /\ KindA(y)
    \/ KindB(x) /\ KindB(y) /\ x.Deadline = y.Deadline

\* C14: two todos that the completion rule and the deadline rule leave
\* unordered (both completed, both incomplete without deadline, both
\* incomplete with the same deadline) are listed with the more recently
\* created one first.
C14_TiesByCreation ==
    Listed =>
        \A i, j \in Pos :
            (/\ Tied(out.list[i], out.list[j])
             /\ out.list[i].CreatedAt > out.list[j].CreatedAt) => i < j

Incomparable(x, y) == ~less(x, y) /\ ~less(y, x)

\* C15: the comparison of the full ordering is a strict weak ordering:
\* irreflexive, asymmetric, transitive, with transitive incomparability.
C15_StrictWeakOrder ==
    \A x, y, z \in StoredTodos :
        /\ ~less(x, x)
        /\ less(x, y) => ~less(y, x)
        /\ (less(x, y) /\ less(y, z)) => less(x, z)
        /\ (Incomparable(x, y) /\ Incomparable(y, z)) => Incomparable(x, z)

\* three stored todos that the comparison chains, and two that it ties,
\* have been sorted
C15_Witness ==
    /\ Listed
    /\ Len(out.list) = 3
    /\ \E x, y, z \in StoredTodos :
          /\ x.Completed /\ y.Completed /\ z.Completed
          /\ x.CreatedAt > y.CreatedAt
          /\ y.CreatedAt > z.CreatedAt
    /\ out.list[1].CreatedAt = 24
    /\ out.list[3].CreatedAt = 0

\* the slice GetTopUpcomingTodos has just returned
Topped == out.op = "GetTopUpcomingTodos"

\* the stored todos that are incomplete and have a deadline
Eligible == {t \in StoredTodos : ~t.Completed /\ t.Deadline # NilTime}

\* C16: GetTopUpcomingTodos returns only incomplete todos with a deadline,
\* in ascending deadline order, and no returned todo has a later deadline
\* than an eligible todo that was left out.
C16_TopUpcomingOrder ==
    Topped =>
        /\ \A i \in Pos : out.list[i] \in Eligible
        /\ \A i, j \in Pos :
              i < j => out.list[i].Deadline <= out.list[j].Deadline
        /\ \A i \in Pos :
              \A e \in Eligible \ {out.list[j] : j \in Pos} :
                  out.list[i].Deadline <= e.Deadline

\* a completed todo with the earliest deadline and a todo without deadline
\* were passed over, and an eligible todo was left out by the limit
C16_Witness ==
    /\ Topped
    /\ out.limit = 1
    /\ Len(out.list) = 1
    /\ Cardinality(Eligible) = 2
    /\ \E c \in StoredTodos :
          c.Completed /\ c.Deadline # NilTime
          /\ c.Deadline < out.list[1].Deadline
    /\ \E e \in Eligible : e.Deadline > out.list[1].Deadline

\* C17: for every limit N >= 0 GetTopUpcomingTodos returns exactly
\* min(N, number of incomplete todos with a deadline) todos.
C17_TopUpcomingLength ==
    Topped =>
        LET avail == Cardinality({i \in 1 .. Len(out.input) :
                        /\ ~out.input[i].Completed
                        /\ out.input[i].Deadline # NilTime})
        IN  Len(out.list) = IF out.limit < avail THEN out.limit ELSE avail

\* the limit exceeded the number of eligible todos, and all were returned
C17_Witness ==
    /\ Topped
    /\ out.limit = 4
    /\ Len(out.list) = 2
    /\ Len(out.input) = 3

\* positions of the input whose todo is incomplete and has no deadline
Loose == {i \in 1 .. Len(out.input) :
            ~out.input[i].Completed /\ out.input[i].Deadline = NilTime}

\* C18: GetTodosWithoutDeadline returns exactly the incomplete todos without
\* deadline of its input, each once, in their input order, and leaves the
\* input as it was.
C18_NoDeadlineSubsequence ==
    out.op = "GetTodosWithoutDeadline" =>
        /\ Len(out.list) = Cardinality(Loose)
        /\ \A i \in Loose :
              out.list[Cardinality({j \in Loose : j <= i})] = out.input[i]
        /\ out.input = ForEach(todos)

\* two loose todos were returned in input order, around a completed todo
\* without deadline that was passed over
C18_Witness ==
    /\ out.op = "GetTodosWithoutDeadline"
    /\ Len(out.input) = 3
    /\ Loose = {1, 3}
    /\ out.input[2].Completed
    /\ out.input[2].Deadline = NilTime
    /\ out.list = <<out.input[1], out.input[3]>>
    /\ out.input[1].CreatedAt < out.input[3].CreatedAt

\* C19: after any sequence of SaveTodo, UpdateTodo and DeleteTodo calls
\* GetTodo(id) returns the record written last for id when id was written
\* and not deleted since, and fails with not-found otherwise; every list
\* GetAllTodos may return has exactly one entry for each such id.
C19_ReadsSeeLastWrite ==
    /\ \A id \in IDs :
          IF id \in DOMAIN written.todos
          THEN id \in DOMAIN todos /\ GetTodo(id) = written.todos[id]
          ELSE id \notin DOMAIN todos
    /\ \A l \in SortedTodos(ForEach(todos)) :
          /\ Len(l) = Cardinality(DOMAIN written.todos)
          /\ \A id \in DOMAIN written.todos :
                Cardinality({i \in 1 .. Len(l) : l[i].ID = id}) = 1

\* one todo was just deleted while another, completed by an update after it
\* was saved, is still stored
C19_Witness ==
    /\ last.op = "DeleteTodo"
    /\ ~last.err
    /\ last.existed
    /\ Cardinality(DOMAIN todos) = 1
    /\ \E id \in DOMAIN todos :
          /\ GetTodo(id).CompletedAt # NilTime
          /\ GetTodo(id).UpdatedAt > GetTodo(id).CreatedAt

---------------------------------------------------------------------------
(* the deadline parser: what the properties read off a text *)

\* minutes in one unit, by its letter in either case
Worth(c) ==
    IF c \in {"m"} THEN 1
    ELSE IF c \in {"h", "H"} THEN 60
    ELSE IF c \in {"d", "D"} THEN 1440
    ELSE IF c \in {"w", "W"} THEN 10080
    ELSE 0

\* the positions of s at which a letter of letters ends a token: a digit
\* stands right before it
Closers(s, letters) ==
    {i \in 2 .. Len(s) : s[i] \in letters /\ isDigit(s[i - 1])}

\* the number written by the digits that end right before position i
NumberBefore(s, i) ==
    LET from == CHOOSE j \in 1 .. i - 1 :
                    /\ \A k \in j .. i - 1 : isDigit(s[k])
                    /\ j = 1 \/ ~isDigit(s[j - 1])
    IN  Atoi(SubSeq(s, from, i - 1))

\* the positions of s that belong to a token closed by a letter of letters
Consumed(s, letters) ==
    {i \in 1 .. Len(s) :
        \E c \in Closers(s, letters) :
            i = c \/ (i < c /\ \A k \in i .. c - 1 : isDigit(s[k]))}

\* s holds at least one token, and nothing but tokens and blanks
TokensOnly(s, letters) ==
    /\ Closers(s, letters) # {}
    /\ \A i \in 1 .. Len(s) : s[i] \in WhiteSpace \/ i \in Consumed(s, letters)

\* the sum of the tokens of s that a letter of letters closes, in minutes
UnitSum(s, letters) ==
    LET sum[n \in 0 .. Len(s)] ==
            IF n = 0 THEN 0
            ELSE sum[n - 1] + (IF n \in Closers(s, letters)
                               THEN NumberBefore(s, n) * Worth(s[n]) ELSE 0)
    IN  sum[Len(s)]

\* the sum of the magnitudes of the month tokens of s
MonthSum(s) ==
    LET sum[n \in 0 .. Len(s)] ==
            IF n = 0 THEN 0
            ELSE sum[n - 1] + (IF n \in Closers(s, {"M"})
                               THEN NumberBefore(s, n) ELSE 0)
    IN  sum[Len(s)]

\* s with the letter at position i in the other case
CaseChanged(s, i) ==
    [k \in 1 .. Len(s) |->
        IF k # i THEN s[k]
        ELSE IF \E n \in 1 .. Len(LowerCase) : LowerCase[n] = s[k]
        THEN UpperCase[CHOOSE n \in 1 .. Len(LowerCase) : LowerCase[n] = s[k]]
        ELSE IF \E n \in 1 .. Len(UpperCase) : UpperCase[n] = s[k]
        THEN LowerCase[CHOOSE n \in 1 .. Len(UpperCase) : UpperCase[n] = s[k]]
        ELSE s[k]]

\* the error texts of the parser
ErrInvalidCharacters == <<"contains invalid characters or format">>
ErrNoValidUnits == <<"no valid time units found (use: m, h, d, w, M)">>
ErrNotPositive == <<"time values must be positive">>
ErrEmpty == <<"deadline cannot be empty">>

\* the message of err holds the message of cause
Contains(err, cause) ==
    \E i \in 1 .. Len(err) - Len(cause) + 1 :
        SubSeq(err, i, i + Len(cause) - 1) = cause

\* C21: for every positive n, parseTimeUnit(n, unit) is n minutes for m,
\* 60 n minutes for h, 1440 n minutes for d and 10080 n minutes for w, and
\* for any other unit code it fails with the invalid-unit error that names
\* the code.
C21_UnitDurations ==
    (out.op = "parseTimeUnit" /\ out.value > 0) =>
        IF out.unit \in {"m", "h", "d", "w"}
        THEN /\ out.result.err = <<>>
             /\ out.unit = "m" => out.result.duration = out.value
             /\ out.unit = "h" => out.result.duration = out.value * 60
             /\ out.unit = "d" => out.result.duration = out.value * 1440
             /\ out.unit = "w" => out.result.duration = out.value * 10080
        ELSE /\ out.result.err # <<>>
             /\ out.result.err[1] = "invalid time unit: "
             /\ out.result.err[2] = out.unit

\* parseTimeUnit(30, "w") returned 302400 minutes
C21_Witness ==
    /\ out.op = "parseTimeUnit"
    /\ out.value = 30
    /\ out.unit = "w"
    /\ out.result.duration = 302400

\* C22: for a text made of tokens <positive integer><m|h|d|w> only, with
\* any blanks or none between them, parseRelativeTime returns the sum of
\* the tokens' durations: the sum does not depend on the order of the
\* tokens or on the blanks, and a repeated unit is added each time.
C22_SumOfTokens ==
    (/\ out.op = "parseRelativeTime"
     /\ TokensOnly(out.input, unitRegex)
     /\ \A i \in Closers(out.input, unitRegex) : NumberBefore(out.input, i) > 0)
    => out.result = [duration |-> UnitSum(out.input, unitRegex), err |-> <<>>]

\* "30d" after "1h", with three blanks between, parsed as 43260 minutes
C22_Witness ==
    /\ out.op = "parseRelativeTime"
    /\ out.input = <<"1", "h", " ", "\t", " ", "3", "0", "d">>
    /\ out.result.duration = 43260
    /\ out.result.err = <<>>

TokenLetters == {"m", "h", "d", "w", "H", "D", "W", "M"}

\* every month token of s has a positive magnitude
MonthsPositive(s) ==
    \A i \in Closers(s, {"M"}) : NumberBefore(s, i) > 0

\* C24: an input that holds at least one recognised token (its month tokens
\* positive) and, blanks aside, at least one character that belongs to no
\* token is rejected by parseRelativeTime with the invalid-characters error,
\* wherever that character stands.
C24_StrayCharactersRejected ==
    (/\ out.op = "parseRelativeTime"
     /\ Closers(out.input, TokenLetters) # {}
     /\ MonthsPositive(out.input)
     /\ \E i \in 1 .. Len(out.input) :
            /\ out.input[i] \notin WhiteSpace
            /\ i \notin Consumed(out.input, TokenLetters))
    => out.result.err = ErrInvalidCharacters

\* C25: a text of one month token <k>M with k positive, alone or with
\* positive m/h/d/w tokens and blanks, is accepted; its duration is the sum
\* of the unit tokens plus the time from the instant of the call to that
\* instant plus k calendar months, which for k = 1 is between 28 and 31 days.
C25_MonthsAccepted ==
    (/\ out.op = "parseRelativeTime"
     /\ TokensOnly(out.input, unitRegex \cup {"M"})
     /\ Cardinality(Closers(out.input, {"M"})) = 1
     /\ \A i \in Closers(out.input, unitRegex \cup {"M"}) :
            NumberBefore(out.input, i) > 0)
    => /\ out.result.err = <<>>
       /\ out.result.duration =
             UnitSum(out.input, unitRegex)
             + (AddDate(out.at, MonthSum(out.input)) - out.at)
       /\ MonthSum(out.input) = 1 =>
             /\ out.result.duration - UnitSum(out.input, unitRegex) >= 28 * 1440
             /\ out.result.duration - UnitSum(out.input, unitRegex) <= 31 * 1440

\* C26: an input in which no <digits><m|h|d|w> token (in either case) and
\* no <digits>M token is found is rejected by parseRelativeTime with the
\* no-valid-units error, and when ParseDeadline hands it to
\* parseRelativeTime (it is not blank and not an absolute timestamp)
\* ParseDeadline returns no deadline and an error that holds that text.
C26_NoValidUnits ==
    /\ (out.op = "parseRelativeTime" /\ Closers(out.input, TokenLetters) = {})
       => out.result = [duration |-> 0, err |-> ErrNoValidUnits]
    /\ (/\ out.op = "ParseDeadline"
        /\ Closers(out.input, TokenLetters) = {}
        /\ \E i \in 1 .. Len(out.input) : out.input[i] \notin WhiteSpace
        /\ ~ParseInLocation(TrimSpace(out.input)).ok)
       => /\ out.result.deadline = NilTime
          /\ Contains(out.result.err, ErrNoValidUnits)

\* ParseDeadline("tomorrow") failed with the no-valid-units text
C26_Witness ==
    /\ out.op = "ParseDeadline"
    /\ out.input = <<"t", "o", "m", "o", "r", "r", "o", "w">>
    /\ out.result.deadline = NilTime
    /\ Contains(out.result.err, ErrNoValidUnits)

\* C27: a text made of tokens and blanks only, whose month tokens are
\* positive and in which some m/h/d/w token has magnitude zero, is rejected
\* with the error "time values must be positive", and ParseDeadline returns
\* no deadline for it.
C27_ZeroRejected ==
    (/\ out.op \in {"parseRelativeTime", "ParseDeadline"}
     /\ TokensOnly(out.input, TokenLetters)
     /\ MonthsPositive(out.input)
     /\ \E i \in Closers(out.input, TokenLetters \ {"M"}) :
            NumberBefore(out.input, i) = 0)
    => IF out.op = "parseRelativeTime"
       THEN out.result = [duration |-> 0, err |-> ErrNotPositive]
       ELSE /\ out.result.deadline = NilTime
            /\ Contains(out.result.err, ErrNotPositive)

\* C28: ParseDeadline returns no deadline and the error "deadline cannot be
\* empty" for the empty text and for every text of blanks only.
C28_EmptyInput ==
    (/\ out.op = "ParseDeadline"
     /\ \A i \in 1 .. Len(out.input) : out.input[i] \in WhiteSpace)
    => out.result = [deadline |-> NilTime, err |-> ErrEmpty]

\* ParseDeadline of blank, tab, blank failed with the empty-input error
C28_Witness ==
    /\ out.op = "ParseDeadline"
    /\ out.input = <<" ", "\t", " ">>
    /\ out.result = [deadline |-> NilTime, err |-> ErrEmpty]

\* the days of the months of a year that is not a leap year
MonthDays == <<31, 28, 31, 30, 31, 30, 31, 31, 30, 31, 30, 31>>

\* y-m-d h:mi names a minute of the calendar
ValidFields(y, m, d, h, mi) ==
    /\ m \in 1 .. 12 /\ h \in 0 .. 23 /\ mi \in 0 .. 59
    /\ d >= 1
    /\ d <= IF m = 2 /\ ((y % 4 = 0 /\ y % 100 # 0) \/ y % 400 = 0)
            THEN 29 ELSE MonthDays[m]

\* C29: when the trimmed input is YYYY-MM-DD HH:MM and the fields name a
\* minute of the calendar, ParseDeadline returns the instant whose local
\* date and clock are those fields, whatever the instant of the call; when
\* a field is out of range (month 13, day 31 of February, hour 24, minute
\* 60) it returns no deadline and an error.
C29_AbsoluteInstant ==
    out.op = "ParseDeadline" =>
        \A y \in StampYears, m \in StampMonths, d \in StampDays,
           h \in StampHours, mi \in StampMinutes :
            TrimSpace(out.input) = Stamp(y, m, d, h, mi, "-", <<" ">>) =>
                IF ValidFields(y, m, d, h, mi)
                THEN /\ out.result.err = <<>>
                     /\ Civil(out.result.deadline) =
                            [year |-> y, month |-> m, day |-> d,
                             hour |-> h, minute |-> mi]
                ELSE /\ out.result.deadline = NilTime
                     /\ out.result.err # <<>>

\* " 2025-12-31 23:59", parsed on 31 January 2024 at 10:00, gave minute
\* 1052639 after 1 January 2024 00:00
C29_Witness ==
    /\ out.op = "ParseDeadline"
    /\ out.at = 43800
    /\ out.input = <<" ", "2", "0", "2", "5", "-", "1", "2", "-", "3", "1",
                     " ", "2", "3", ":", "5", "9">>
    /\ out.result = [deadline |-> 1052639, err |-> <<>>]

\* C30: once SaveTodo has stored a todo, the CreatedAt of the stored record
\* stays the same through every later SaveTodo and UpdateTodo on that id.
C30_CreatedAtSetOnce ==
    [][\A id \in IDs :
          (/\ id \in DOMAIN todos
           /\ id \in DOMAIN todos'
           /\ GetTodo(id).CreatedAt # ZeroTime)
          => Unmarshal(todos'[id]).CreatedAt = GetTodo(id).CreatedAt]_vars

---------------------------------------------------------------------------
(* the command line and the list view *)

\* C31: in command-line mode no todo is saved when the title or the
\* description is missing, the title is longer than 100 characters, the
\* description is longer than 500 characters, or the deadline text fails to
\* parse; a todo that is saved has Completed = false and no completion
\* timestamp.
C31_OnlyValidTodosSaved ==
    [][todos' # todos =>
          /\ title # <<>>
          /\ description # <<>>
          /\ Len(title) <= 100
          /\ Len(description) <= 500
          /\ deadline = <<>> \/ ParseDeadline(deadline, now * Hour).err = <<>>
          /\ \A id \in DOMAIN todos' \ DOMAIN todos :
                /\ ~Unmarshal(todos'[id]).Completed
                /\ "completed_at" \notin DOMAIN todos'[id]]_vars

\* a title and a description at their limits were saved with the deadline 1d
C31_Witness ==
    /\ program = "exit 0"
    /\ Len(title) = 100
    /\ Len(description) = 500
    /\ deadline = <<"1", "d">>
    /\ \E id \in DOMAIN todos :
          /\ ~GetTodo(id).Completed
          /\ GetTodo(id).Deadline = now + HoursPerDay

\* C32: in the list view a todo leaves the bucket only when y is pressed
\* while a delete confirmation is pending; a confirmation becomes pending
\* only when d is pressed on a selected todo; the todo deleted is the one
\* that was selected when d was pressed, whatever was pressed in between;
\* and n pressed while the confirmation is pending dismisses it and leaves
\* the bucket as it is.
C32_DeleteOnlyConfirmed ==
    [][/\ \A id \in DOMAIN todos \ DOMAIN todos' :
             /\ DoPressY
             /\ model.confirmingDelete
             /\ model.todoToDelete # <<>>
             /\ model.todoToDelete[1].ID = id
       /\ (~model.confirmingDelete /\ model'.confirmingDelete) =>
             /\ PressD
             /\ getCurrentTodo # <<>>
             /\ model'.todoToDelete = <<model.todos[getCurrentTodo[1]]>>
       /\ (model.confirmingDelete /\ model'.confirmingDelete) =>
             model'.todoToDelete = model.todoToDelete
       /\ (model.confirmingDelete /\ PressN) =>
             /\ ~model'.confirmingDelete
             /\ todos' = todos]_vars

\* the completed todo "b", second of the list, was deleted on y
C32_Witness ==
    /\ last.op = "DeleteTodo"
    /\ ~last.err
    /\ last.existed
    /\ deleted = {"b"}
    /\ DOMAIN todos = {"a"}
    /\ ~model.confirmingDelete

\* C33: while a delete confirmation is pending, esc cancels it: the dialog
\* is dismissed, nothing is deleted and the list view keeps running.
C33_EscCancels ==
    [][(model.confirmingDelete /\ PressQuit("esc")) =>
          /\ ~model'.confirmingDelete
          /\ todos' = todos
          /\ program' = "list"]_vars

\* C34: when UpdateTodo returns an error, the streak in the bucket is what
\* it was before the call.
C34_FailedUpdateKeepsStreak ==
    (last.op = "UpdateTodo" /\ last.err) => cur = old

\* C35: a todo that a confirmed delete of the list view removed from the
\* bucket is not in the bucket afterwards, whatever key is pressed.
C35_DeletedStaysDeleted ==
    deleted \cap DOMAIN todos = {}

\* C36: while the list view is navigated and reloaded, the cursor is on the
\* page that is shown: currentPage*10 <= cursor < (currentPage+1)*10.
C36_CursorOnPage ==
    program = "list" =>
        /\ model.currentPage * 10 <= model.cursor
        /\ model.cursor < (model.currentPage + 1) * 10

\* C37: in the list view, when the visible list is not empty, the cursor is
\* a position of it: 0 <= cursor < length of the visible list.
C37_CursorOnTodo ==
    (program = "list" /\ Len(visibleRefs) > 0) =>
        /\ 0 <= model.cursor
        /\ model.cursor < Len(visibleRefs)

\* how often the todo with the id is in a list of todos
Times(list, id) ==
    Cardinality({k \in 1 .. Len(list) : list[k].ID = id})

\* C38 as stated: after every data load, each todo in the bucket is exactly
\* once in the visible list.
C38_EveryTodoListedOnce ==
    [][DoOnDataLoaded => \A id \in DOMAIN todos' : Times(getVisibleTodos', id) = 1]_vars

\* C38: after a data load, no todo that the load read is twice in the
\* visible list; a todo that is completed or has no deadline is in it once;
\* of the incomplete todos with a deadline the 10 with the nearest deadlines
\* are in it (all of them when there are at most 10) and the others are not.
C38_ListedUnlessBeyondTop ==
    [][DoOnDataLoaded =>
          LET list   == model'.todos
              seen   == getVisibleTodos'
              ahead  == {i \in 1 .. Len(list) : isUpcoming(list[i])}
              listed == {i \in ahead : Times(seen, list[i].ID) = 1}
          IN  /\ \A i \in 1 .. Len(list) : Times(seen, list[i].ID) <= 1
              /\ \A i \in 1 .. Len(list) :
                    ~isUpcoming(list[i]) => Times(seen, list[i].ID) = 1
              /\ Cardinality(listed) =
                    (IF Cardinality(ahead) > 10 THEN 10 ELSE Cardinality(ahead))
              /\ \A i \in listed, j \in ahead \ listed :
                    list[i].Deadline <= list[j].Deadline]_vars

\* eleven incomplete todos with a deadline and a completed one were loaded:
\* ten of the eleven and the completed one are visible
C38_Witness ==
    /\ ~model.loading
    /\ Len(model.todos) = 12
    /\ Len(model.topUpcoming) = 10
    /\ Len(visibleRefs) = 11
    /\ Times(getVisibleTodos, "a") = 0
    /\ Times(getVisibleTodos, "l") = 1

\* C39: when the list view holds an error, it shows the todo list again,
\* not the error, after the next data load that succeeds.
C39_ErrorClearedByLoad ==
    [][(model.err # <<>> /\ DoOnDataLoaded) => View' = "Todo List"]_vars

====
